---- MODULE Spec2Model ----
(***************************************************************************)
(* Conversation orchestration of the chatbot backend:                      *)
(*   app/services/chatbot.py  (ChatbotService)                             *)
(*   app/services/mongodb.py  (MongoDBService)                             *)
(*   app/api/chat.py          (HTTP endpoints)                             *)
(* Message contents are sequences of tokens; "x in content" of the source  *)
(* is token membership.  Similarity scores are percentages (0.9 -> 90).    *)
(* Each chat request is a process that moves from one await to the next:   *)
(* create_conversation, get_conversation, is_touch_lesson, the graph node, *)
(* save_conversation.  Store calls may raise PyMongoError, llm.invoke and  *)
(* the similarity search may raise.  The locals of a request are reset     *)
(* when chat returns or raises; requests are numbered in the order in      *)
(* which they arrive.                                                      *)
(* Spec          the endpoints with concurrent chat requests; a save is    *)
(*               one step and documents carry no updated_at                *)
(* SpecClassifier, SpecIndexDown, SpecTurn   one request on a stored       *)
(*               conversation of any history                               *)
(* SpecAugmenter build_topic_node entered with any list of messages        *)
(* SpecClock     turns on stamped documents: created_at, updated_at and    *)
(*               message timestamps, writes applied by the server later    *)
(* SpecStore     MongoDBService called directly: a save is stamped with    *)
(*               the clock when called and applied by the server later     *)
(* SpecRetriever aget_context / get_context called directly on an index    *)
(* The model name of a request is not part of the state.                   *)
(***************************************************************************)
EXTENDS Integers, Sequences, FiniteSets, TLC

\* ------------------------------------------------------------------ bounds
MaxTurns == 2          \* chat requests issued in one run
MaxIds == 2            \* uuid4 values drawn in one run
MaxHistory == 3        \* longest stored history handed to the classifier alone
MaxClock == 2          \* last tick of the clock read by save_conversation
MaxDocs == 6           \* documents the vector index ranks for one query

\* --------------------------------------------------------------- constants
ScoreAget == 90        \* aget_context: score > 0.9
ScoreGet == 70         \* get_context: score > 0.7
TopK == 5              \* similarity_search_with_score(..., k=5)

Turns == 1..MaxTurns
NoId == <<"none">>          \* ChatRequest.conversation_id = None
UnknownId == <<"unknown">>  \* an id the store never held
None == <<>>                \* Optional[str] = None
Some(x) == <<x>>            \* Optional[str] = x
NoConversation == [conversation_id |-> NoId]   \* get_conversation() -> None

Marker == "<lesson>"
UserTexts == {<<"tcp">>, <<"<lesson>", "tcp">>}
Titles == {None, Some(<<"intro">>)}
LlmReplies == {<<"<h4><topic>", "<lesson>">>, <<"ok">>}
ErrorBuildingTopic == <<"Error building topic">>

\* what similarity_search_with_score may return (ranked, with scores)
IndexResults ==
    { <<>>,
      << [page_content |-> "p1", score |-> 95],
         [page_content |-> "p2", score |-> 80],
         [page_content |-> "p3", score |-> 60] >> }

Uuid(n) == <<"uuid", n>>

VARIABLES
    initialized,          \* llm, embeddings, vector_store and graph are all set
    collection,           \* mongodb_service.collection is not None
    store,                \* the collection: conversation_id -> document
    nextId,               \* uuid4 values drawn so far + 1
    pc,                   \* position of each chat request
    message,              \* chat(message, ...)
    supplied,             \* chat(..., conversation_id) as given by the caller
    conversation_id,      \* local conversation_id of chat
    conversation,         \* local conversation of chat (in memory)
    context,              \* local context of chat (aget_context result)
    queries,              \* history: the retrievals the request has made, in order
    langchain_messages,   \* state["messages"] of the graph
    route,                \* value returned by is_touch_lesson
    response,             \* result["messages"][-1]
    result,               \* what chat returned or raised
    sent,                 \* history: the sequences passed to llm.invoke
    llm_failed,           \* history: llm.invoke raised in this request
    minted,               \* history: ids drawn by create_conversation in this request
    wrote,                \* history: ids whose document this request changed
    loaded,               \* history: the document the request loaded
    ack,                  \* history: what the final save_conversation returned
    deleted,              \* history: ids for which the delete endpoint found a document
    index_down,           \* the vector index is unreachable: every query raises
    now,                  \* datetime.now(timezone.utc), in ticks
    pending,              \* update_one commands sent to the server, not yet applied
    written,              \* ids of the stored documents, oldest applied write first
    reply,                \* what the last direct call on the store service returned
    index,                \* the vector index: documents with scores, as ranked
    retrieval             \* the last direct call of aget_context / get_context

vars == << initialized, collection, store, nextId, pc, message, supplied,
           conversation_id, conversation, context, queries, langchain_messages, route,
           response, result, sent, llm_failed, minted, wrote, loaded, ack,
           deleted, index_down, now, pending, written, reply, index, retrieval >>

\* the state of direct calls on the store service and on the retriever
direct == << now, pending, written, reply, index, retrieval >>

\* ---------------------------------------------------------------- helpers
Last(s) == s[Len(s)]
Front(s) == SubSeq(s, 1, Len(s) - 1)

\* "tok in content"
Contains(content, tok) == \E i \in 1..Len(content) : content[i] = tok

\* ChatMessage(role=..., content=...)
ChatMessage(role, content) == [role |-> role, content |-> content]

\* HumanMessage(content=...) / AIMessage(content=...)
BaseMessage(type, content) == [type |-> type, content |-> content]

\* ConversationHistory(conversation_id, messages=[], title)
ConversationHistory(id, title) ==
    [conversation_id |-> id, messages |-> <<>>, title |-> title]

Get(st, id) == IF id \in DOMAIN st THEN st[id] ELSE NoConversation

\* variant: a null title is left out of the $set
Upsert_skip_null(st, doc) ==
    [i \in DOMAIN st \cup {doc.conversation_id} |->
        IF i # doc.conversation_id THEN st[i]
        ELSE IF i \in DOMAIN st /\ doc.title = None
             THEN [doc EXCEPT !.title = st[i].title]
             ELSE doc]

\* variant: an existing document is kept ($setOnInsert instead of $set)
Upsert_insert_only(st, doc) ==
    [i \in DOMAIN st \cup {doc.conversation_id} |->
        IF i \in DOMAIN st THEN st[i] ELSE doc]

\* update_one({"conversation_id": id}, {"$set": doc}, upsert=True)
Upsert(st, doc) ==
    [i \in DOMAIN st \cup {doc.conversation_id} |->
        IF i = doc.conversation_id THEN doc ELSE st[i]]

\* variant: delete_many({})
Remove_every(st, id) == [i \in {} |-> st[i]]

\* delete_one({"conversation_id": id})
Remove(st, id) == [i \in DOMAIN st \ {id} |-> st[i]]

\* -------------------------------------------------------- pure functions
\* the loop of is_touch_lesson, from message i on
RECURSIVE lesson_is_generated(_, _)
lesson_is_generated(messages, i) ==
    IF i > Len(messages) THEN FALSE
    ELSE IF messages[i].role = "assistant" /\ Contains(messages[i].content, Marker)
         THEN TRUE
         ELSE lesson_is_generated(messages, i + 1)

\* variant: only the last message is inspected
is_touch_lesson_last_only(messages) ==
    IF messages # <<>> /\ Last(messages).role = "assistant"
                      /\ Contains(Last(messages).content, Marker)
    THEN "generated" ELSE "not_generated"

\* variant: the role test names the wrong role
is_touch_lesson_user_role(messages) ==
    IF \E i \in 1..Len(messages) :
           messages[i].role = "user" /\ Contains(messages[i].content, Marker)
    THEN "generated" ELSE "not_generated"

is_touch_lesson(messages) ==
    IF lesson_is_generated(messages, 1) THEN "generated" ELSE "not_generated"

\* _convert_to_langchain_messages: other roles are skipped
RECURSIVE convert_to_langchain_messages(_)
convert_to_langchain_messages(messages) ==
    IF messages = <<>> THEN <<>>
    ELSE LET msg == Head(messages)
             rest == convert_to_langchain_messages(Tail(messages))
         IN  IF msg.role = "user" THEN <<BaseMessage("human", msg.content)>> \o rest
             ELSE IF msg.role = "assistant" THEN <<BaseMessage("ai", msg.content)>> \o rest
             ELSE rest

\* _convert_from_langchain_message
convert_from_langchain_message(m) ==
    ChatMessage(IF m.type = "human" THEN "user"
                ELSE IF m.type = "ai" THEN "assistant"
                ELSE "system",
                m.content)

\* add_messages coerces a bare str to a HumanMessage
CoerceStr(content) == BaseMessage("human", content)

\* web_search: returns [] before anything else
web_search(query) == <<>>

\* variant: score >= threshold
RECURSIVE Relevant_inclusive(_, _)
Relevant_inclusive(docs, threshold) ==
    IF docs = <<>> THEN <<>>
    ELSE IF Head(docs).score >= threshold
         THEN <<Head(docs)>> \o Relevant_inclusive(Tail(docs), threshold)
         ELSE Relevant_inclusive(Tail(docs), threshold)

\* [doc for doc, score in relevant_docs if score > threshold]
RECURSIVE Relevant(_, _)
Relevant(docs, threshold) ==
    IF docs = <<>> THEN <<>>
    ELSE IF Head(docs).score > threshold
         THEN <<Head(docs)>> \o Relevant(Tail(docs), threshold)
         ELSE Relevant(Tail(docs), threshold)

\* " ".join([doc.page_content for doc in relevant_docs])
RECURSIVE JoinDocs(_)
JoinDocs(docs) ==
    IF docs = <<>> THEN <<>> ELSE <<Head(docs).page_content>> \o JoinDocs(Tail(docs))

\* variant: the search is not inside the try
aget_context_unguarded(query, raised, results) ==
    LET relevant_docs == Relevant(results, ScoreAget)
    IN  IF relevant_docs = <<>> THEN web_search(query) ELSE JoinDocs(relevant_docs)

\* aget_context; raised = the similarity search raised
aget_context(query, raised, results) ==
    LET relevant_docs == IF raised THEN <<>> ELSE Relevant(results, ScoreAget)
    IN  IF relevant_docs = <<>> THEN web_search(query) ELSE JoinDocs(relevant_docs)

\* get_context; the web search is commented out
get_context(query, raised, results) ==
    LET relevant_docs == IF raised THEN <<>> ELSE Relevant(results, ScoreGet)
    IN  IF relevant_docs = <<>> THEN <<>> ELSE JoinDocs(relevant_docs)

\* the calls of web_search that aget_context makes (line 224)
aget_context_web_calls(query, raised, results) ==
    LET relevant_docs == IF raised THEN <<>> ELSE Relevant(results, ScoreAget)
    IN  IF relevant_docs = <<>> THEN <<query>> ELSE <<>>

\* the calls of web_search that get_context makes (line 251: none)
get_context_web_calls(query, raised, results) == <<>>

\* vector_store.similarity_search_with_score(query, k): the k best ranked
similarity_search_with_score(idx, k) ==
    SubSeq(idx, 1, IF Len(idx) < k THEN Len(idx) ELSE k)

\* the f-string of build_topic_node
LessonTemplate(ctx, content) ==
    <<"Context:">> \o ctx \o <<"Build a structured lesson", "User message:">>
        \o content \o <<"<h4><topic>", "<lesson>", "remove <br>">>

\* variant: the popped message is rewritten and sent alone
build_topic_messages_last_only(messages, ctx) ==
    LET user_message == Last(messages)
    IN  << [user_message EXCEPT !.content = LessonTemplate(ctx, user_message.content)] >>

\* build_topic_node up to llm.invoke: pop, rewrite, append
build_topic_messages(messages, ctx) ==
    LET user_message == Last(messages)
    IN  Append(Front(messages),
               [user_message EXCEPT !.content = LessonTemplate(ctx, user_message.content)])

\* mongodb_service.save_conversation: (acknowledged, store afterwards)
save_conversation(st, doc, raised) ==
    IF ~collection THEN [ok |-> FALSE, store |-> st]
    ELSE IF raised THEN [ok |-> FALSE, store |-> st]
    ELSE [ok |-> TRUE, store |-> Upsert(st, doc)]

\* mongodb_service.get_conversation
get_conversation(st, id, raised) ==
    IF ~collection THEN NoConversation
    ELSE IF raised THEN NoConversation
    ELSE Get(st, id)

\* variant: the result is result.acknowledged instead of deleted_count > 0
delete_conversation_acknowledged(st, id, raised) ==
    IF ~collection THEN [ok |-> FALSE, store |-> st]
    ELSE IF raised THEN [ok |-> FALSE, store |-> st]
    ELSE [ok |-> TRUE, store |-> Remove(st, id)]

\* mongodb_service.delete_conversation: (deleted, store afterwards)
delete_conversation(st, id, raised) ==
    IF ~collection THEN [ok |-> FALSE, store |-> st]
    ELSE IF raised THEN [ok |-> FALSE, store |-> st]
    ELSE [ok |-> id \in DOMAIN st, store |-> Remove(st, id)]

\* save_conversation lines 61-62: model_dump() with updated_at overwritten
conversation_dict(conv, at) ==
    [f \in DOMAIN conv \cup {"updated_at"} |->
        IF f = "updated_at" THEN at ELSE conv[f]]

\* the orders in which a cursor can deliver the documents of st
Orders(st) ==
    {o \in [1..Cardinality(DOMAIN st) -> DOMAIN st] :
        \A i, j \in DOMAIN o : i # j => o[i] # o[j]}

\* variant: sort("updated_at", 1)
Sorted_ascending(st) ==
    {o \in Orders(st) :
        \A i, j \in DOMAIN o : i < j => st[o[i]].updated_at <= st[o[j]].updated_at}

\* find(...).sort("updated_at", -1): equal keys come in any order
Sorted(st) ==
    {o \in Orders(st) :
        \A i, j \in DOMAIN o : i < j => st[o[i]].updated_at >= st[o[j]].updated_at}

\* list_conversations lines 137-143; contents here are shorter than 50 characters
conversation_summary(doc) ==
    [conversation_id |-> doc.conversation_id,
     message_count |-> Len(doc.messages),
     updated_at |-> doc.updated_at,
     last_message |-> IF doc.messages # <<>>
                      THEN Last(doc.messages).content \o <<"...">> ELSE <<>>]

\* mongodb_service.list_conversations; order = the order the cursor delivers
list_conversations(st, raised, order) ==
    IF ~collection THEN <<>>
    ELSE IF raised THEN <<>>
    ELSE [i \in DOMAIN order |-> conversation_summary(st[order[i]])]

\* ------------------------------------------------------------------ state
NoMessage == [type |-> "none", content |-> <<>>]

\* no request has arrived yet
InitRequests ==
    /\ pc = [t \in Turns |-> "idle"]
    /\ message = [t \in Turns |-> <<>>]
    /\ supplied = [t \in Turns |-> NoId]
    /\ conversation_id = [t \in Turns |-> NoId]
    /\ conversation = [t \in Turns |-> NoConversation]
    /\ context = [t \in Turns |-> <<>>]
    /\ queries = [t \in Turns |-> <<>>]
    /\ langchain_messages = [t \in Turns |-> <<>>]
    /\ route = [t \in Turns |-> "none"]
    /\ response = [t \in Turns |-> NoMessage]
    /\ result = [t \in Turns |-> [status |-> "none"]]
    /\ sent = [t \in Turns |-> <<>>]
    /\ llm_failed = [t \in Turns |-> FALSE]
    /\ minted = [t \in Turns |-> {}]
    /\ wrote = [t \in Turns |-> {}]
    /\ loaded = [t \in Turns |-> NoConversation]
    /\ ack = [t \in Turns |-> FALSE]

NoReply == [op |-> "none"]
NoRetrieval == [fn |-> "none"]

\* no direct call has been made; the index is not looked at
InitDirect ==
    /\ now = 0
    /\ pending = {}
    /\ written = <<>>
    /\ reply = NoReply
    /\ index = <<>>
    /\ retrieval = NoRetrieval

\* index_down = FALSE leaves each query free to raise or not
Init ==
    /\ initialized \in BOOLEAN
    /\ collection \in BOOLEAN
    /\ store = << >>
    /\ nextId = 1
    /\ deleted = {}
    /\ index_down = FALSE
    /\ InitRequests
    /\ InitDirect

\* the locals of a request go away when chat returns or raises
Leave(t) ==
    /\ conversation' = [conversation EXCEPT ![t] = NoConversation]
    /\ context' = [context EXCEPT ![t] = <<>>]
    /\ queries' = [queries EXCEPT ![t] = <<>>]
    /\ langchain_messages' = [langchain_messages EXCEPT ![t] = <<>>]
    /\ response' = [response EXCEPT ![t] = NoMessage]
    /\ loaded' = [loaded EXCEPT ![t] = NoConversation]
    /\ message' = [message EXCEPT ![t] = <<>>]
    /\ supplied' = [supplied EXCEPT ![t] = NoId]
    /\ conversation_id' = [conversation_id EXCEPT ![t] = NoId]
    /\ route' = [route EXCEPT ![t] = "none"]
    /\ sent' = [sent EXCEPT ![t] = <<>>]

\* an exception leaves chat; the endpoint turns it into HTTP 500
Raise(t, error) ==
    /\ pc' = [pc EXCEPT ![t] = "failed"]
    /\ result' = [result EXCEPT ![t] = [status |-> "error", error |-> error]]
    /\ Leave(t)

\* ----------------------------------------------------------- chat, by step
\* variant: the initialisation check of lines 264-265 is missing
ChatBegin_unchecked(t, m, id) ==
    /\ pc[t] = "idle"
    /\ \A u \in Turns : u < t => pc[u] # "idle"
    /\ pc' = [pc EXCEPT ![t] = IF id = NoId THEN "create" ELSE "get"]
    /\ message' = [message EXCEPT ![t] = m]
    /\ supplied' = [supplied EXCEPT ![t] = id]
    /\ conversation_id' = [conversation_id EXCEPT ![t] = id]
    /\ UNCHANGED << result, conversation, context, queries, langchain_messages,
                    response, loaded, route, sent >>
    /\ UNCHANGED << deleted, index_down, direct, initialized, collection, store, nextId, llm_failed,
                    minted, wrote, ack >>

\* chat lines 259-268: the initialisation check and the falsy-id test
ChatBegin(t, m, id) ==
    /\ pc[t] = "idle"
    /\ \A u \in Turns : u < t => pc[u] # "idle"
    /\ IF ~initialized
       THEN Raise(t, "ValueError")
       ELSE /\ pc' = [pc EXCEPT ![t] = IF id = NoId THEN "create" ELSE "get"]
            /\ message' = [message EXCEPT ![t] = m]
            /\ supplied' = [supplied EXCEPT ![t] = id]
            /\ conversation_id' = [conversation_id EXCEPT ![t] = id]
            /\ UNCHANGED << result, conversation, context, queries, langchain_messages,
                            response, loaded, route, sent >>
    /\ UNCHANGED << deleted, index_down, direct, initialized, collection, store, nextId, llm_failed,
                    minted, wrote, ack >>

\* variant: the conversation is created under the id the caller gave
new_conversation_id_reused(given, n) == IF given # NoId THEN given ELSE Uuid(n)

\* create_conversation line 163: conversation_id = str(uuid.uuid4())
new_conversation_id(given, n) == Uuid(n)

\* create_conversation(message), called from chat line 268 or 273
ChatCreate(t, raised) ==
    /\ pc[t] \in {"create", "create_again"}
    /\ nextId <= MaxIds
    /\ LET id == new_conversation_id(supplied[t], nextId)
           saved == save_conversation(store, ConversationHistory(id, Some(message[t])), raised)
       IN  /\ store' = saved.store
           /\ wrote' = [wrote EXCEPT ![t] = IF saved.ok THEN @ \cup {id} ELSE @]
           /\ conversation_id' = [conversation_id EXCEPT ![t] = id]
           /\ minted' = [minted EXCEPT ![t] = @ \cup {id}]
    /\ nextId' = nextId + 1
    /\ pc' = [pc EXCEPT ![t] = IF @ = "create" THEN "get" ELSE "get_again"]
    /\ UNCHANGED << deleted, index_down, direct, initialized, collection, message, supplied, conversation, context, queries,
                    langchain_messages, route, response, result, sent, llm_failed,
                    loaded, ack >>

\* variant: the augmented prompt is appended instead of the raw text
with_user_message_augmented(doc, m) ==
    [doc EXCEPT !.messages = Append(@, ChatMessage("user", LessonTemplate(<<>>, m)))]

\* chat lines 276-282: the user message is appended in memory
with_user_message(doc, m) ==
    [doc EXCEPT !.messages = Append(@, ChatMessage("user", m))]

\* chat line 287: the f-string assigned to augmented_message (never read again)
augmented_message(ctx, m) ==
    <<"CONTEXT:">> \o ctx \o <<"-------------", "USER MESSAGE:">> \o m

\* chat lines 276-297 once a conversation is in hand: append the user message,
\* retrieve the context, convert the history
ChatPrepare(t, doc, idx_raised, idx) ==
    LET conv == with_user_message(doc, message[t])
    IN  /\ loaded' = [loaded EXCEPT ![t] = doc]
        /\ conversation' = [conversation EXCEPT ![t] = conv]
        /\ context' = [context EXCEPT ![t] = aget_context(message[t], idx_raised, idx)]
        /\ queries' = [queries EXCEPT ![t] =
               Append(@, [fn |-> "aget_context", query |-> message[t],
                          context |-> aget_context(message[t], idx_raised, idx)])]
        /\ langchain_messages' =
               [langchain_messages EXCEPT ![t] = convert_to_langchain_messages(conv.messages)]
        /\ pc' = [pc EXCEPT ![t] = "classify"]
        /\ UNCHANGED << result, response, message, supplied, conversation_id, route,
                        sent >>

\* chat lines 271-274: get_conversation, and what follows without suspension
ChatGet(t, raised, idx_raised, idx) ==
    /\ pc[t] \in {"get", "get_again"}
    /\ index_down => idx_raised
    /\ LET doc == get_conversation(store, conversation_id[t], raised)
       IN  IF doc # NoConversation
           THEN ChatPrepare(t, doc, idx_raised, idx)
           ELSE IF pc[t] = "get"
                THEN /\ pc' = [pc EXCEPT ![t] = "create_again"]
                     /\ UNCHANGED << result, loaded, conversation, context, queries,
                                     langchain_messages, response, message,
                                     supplied, conversation_id, route, sent >>
                ELSE Raise(t, "AttributeError")
    /\ UNCHANGED << deleted, index_down, direct, initialized, collection, store, nextId, llm_failed,
                    minted, wrote, ack >>

\* the conditional edge from START: is_touch_lesson reads the store
ChatClassify(t, raised) ==
    /\ pc[t] = "classify"
    /\ LET doc == get_conversation(store, conversation_id[t], raised)
       IN  IF doc = NoConversation
           THEN Raise(t, "AttributeError")
           ELSE /\ route' = [route EXCEPT ![t] = is_touch_lesson(doc.messages)]
                /\ pc' = [pc EXCEPT ![t] =
                             IF is_touch_lesson(doc.messages) = "generated"
                             THEN "chat" ELSE "build_topic"]
                /\ UNCHANGED << result, conversation, context, queries, langchain_messages,
                                response, loaded, message, supplied, conversation_id,
                                sent >>
    /\ UNCHANGED << deleted, index_down, direct, initialized, collection, store, nextId, llm_failed,
                    minted, wrote, ack >>

\* chat_node; llm_raised = llm.invoke raised, answer = what it returned otherwise
ChatNode(t, llm_raised, answer) ==
    /\ pc[t] = "chat"
    /\ llm_failed' = [llm_failed EXCEPT ![t] = @ \/ llm_raised]
    /\ IF llm_raised
       THEN Raise(t, "LLMError")
       ELSE /\ sent' = [sent EXCEPT ![t] = Append(@, langchain_messages[t])]
            /\ response' = [response EXCEPT ![t] = BaseMessage("ai", answer)]
            /\ pc' = [pc EXCEPT ![t] = "respond"]
            /\ UNCHANGED << result, conversation, context, queries, langchain_messages, loaded,
                            message, supplied, conversation_id, route >>
    /\ UNCHANGED << deleted, index_down, direct, initialized, collection, store, nextId, minted, wrote, ack >>

\* build_topic_node
BuildTopicNode(t, idx_raised, idx, llm_raised, answer) ==
    /\ pc[t] = "build_topic"
    /\ index_down => idx_raised
    /\ IF langchain_messages[t] = <<>>
       THEN \* messages.pop() raises IndexError, caught by the except
            /\ response' = [response EXCEPT ![t] = CoerceStr(ErrorBuildingTopic)]
            /\ UNCHANGED << langchain_messages, sent, llm_failed, queries >>
       ELSE LET ctx == get_context(Last(langchain_messages[t]).content, idx_raised, idx)
                messages == build_topic_messages(langchain_messages[t], ctx)
            IN  /\ langchain_messages' = [langchain_messages EXCEPT ![t] = messages]
                /\ queries' = [queries EXCEPT ![t] =
                       Append(@, [fn |-> "get_context",
                                  query |-> Last(langchain_messages[t]).content,
                                  context |-> ctx])]
                /\ sent' = [sent EXCEPT ![t] = Append(@, messages)]
                /\ llm_failed' = [llm_failed EXCEPT ![t] = @ \/ llm_raised]
                /\ response' = [response EXCEPT ![t] =
                                   IF llm_raised THEN CoerceStr(ErrorBuildingTopic)
                                   ELSE BaseMessage("ai", answer)]
    /\ pc' = [pc EXCEPT ![t] = "respond"]
    /\ UNCHANGED << deleted, index_down, direct, initialized, collection, store, nextId, message, supplied,
                    conversation_id, conversation, context, route, result, minted,
                    wrote, loaded, ack >>

\* variant: the reply is not appended before the save
updated_conversation_no_reply(conv, m, ai_message) ==
    [conv EXCEPT !.title = IF @ = None THEN Some(m) ELSE @]

\* variant: the title is set on every turn
updated_conversation_retitled(conv, m, ai_message) ==
    [conv EXCEPT !.title = Some(m), !.messages = Append(@, ai_message)]

\* chat lines 303-312: the conversation to be saved
updated_conversation(conv, m, ai_message) ==
    [conv EXCEPT !.title = IF @ = None THEN Some(m) ELSE @,
                 !.messages = Append(@, ai_message)]

\* chat lines 315-322: the return value of save_conversation is dropped
chat_return(ai_message, id, acknowledged) ==
    [status |-> "ok", message |-> ai_message.content, conversation_id |-> id]

\* chat lines 303-322: normalise the reply, save, return
ChatRespond(t, raised) ==
    /\ pc[t] = "respond"
    /\ LET ai_message == convert_from_langchain_message(response[t])
           conv == updated_conversation(conversation[t], message[t], ai_message)
           saved == save_conversation(store, conv, raised)
       IN  /\ store' = saved.store
           /\ wrote' = [wrote EXCEPT ![t] =
                           IF saved.ok THEN @ \cup {conv.conversation_id} ELSE @]
           /\ ack' = [ack EXCEPT ![t] = saved.ok]
           /\ result' = [result EXCEPT ![t] =
                            chat_return(ai_message, conversation_id[t], saved.ok)]
    /\ pc' = [pc EXCEPT ![t] = "done"]
    /\ Leave(t)
    /\ UNCHANGED << deleted, index_down, direct, initialized, collection, nextId, llm_failed, minted >>

\* ------------------------------------------------------- other endpoints
\* POST /chat/conversation: create_conversation(title)
CreateConversation(title, raised) ==
    /\ nextId <= MaxIds
    /\ store' = save_conversation(store, ConversationHistory(Uuid(nextId), title), raised).store
    /\ nextId' = nextId + 1
    /\ UNCHANGED << deleted, index_down, direct, initialized, collection, pc, message, supplied, conversation_id,
                    conversation, context, queries, langchain_messages, route, response,
                    result, sent, llm_failed, minted, wrote, loaded, ack >>

\* DELETE /chat/conversation/{id}
DeleteConversation(id, raised) ==
    /\ store' = delete_conversation(store, id, raised).store
    /\ deleted' = IF delete_conversation(store, id, raised).ok
                  THEN deleted \cup {id} ELSE deleted
    /\ UNCHANGED << index_down, direct, initialized, collection, nextId, pc, message, supplied,
                    conversation_id, conversation, context, queries, langchain_messages,
                    route, response, result, sent, llm_failed, minted, wrote,
                    loaded, ack >>

\* ids a caller can name: none, an unknown one, or one handed out before
KnownIds == {Uuid(n) : n \in 1..(nextId - 1)}

Next ==
    \/ \E t \in Turns, m \in UserTexts, id \in {NoId, UnknownId} \cup KnownIds :
           ChatBegin(t, m, id)
    \/ \E t \in Turns, raised \in BOOLEAN : ChatCreate(t, raised)
    \/ \E t \in Turns, raised \in BOOLEAN, idx_raised \in BOOLEAN, idx \in IndexResults :
           ChatGet(t, raised, idx_raised, idx)
    \/ \E t \in Turns, raised \in BOOLEAN : ChatClassify(t, raised)
    \/ \E t \in Turns, llm_raised \in BOOLEAN, answer \in LlmReplies :
           ChatNode(t, llm_raised, answer)
    \/ \E t \in Turns, idx_raised \in BOOLEAN, idx \in IndexResults,
          llm_raised \in BOOLEAN, answer \in LlmReplies :
           BuildTopicNode(t, idx_raised, idx, llm_raised, answer)
    \/ \E t \in Turns, raised \in BOOLEAN : ChatRespond(t, raised)
    \/ \E title \in Titles, raised \in BOOLEAN : CreateConversation(title, raised)
    \/ \E id \in {UnknownId} \cup KnownIds, raised \in BOOLEAN :
           DeleteConversation(id, raised)

Spec == Init /\ [][Next]_vars

\* ------------------------------------------- the turn classifier on its own
\* stored histories of up to MaxHistory messages, any roles and contents
MessageKinds ==
    {ChatMessage(role, content) :
        role \in {"user", "assistant"}, content \in UserTexts \cup LlmReplies}

RECURSIVE HistoriesOfLen(_)
HistoriesOfLen(n) ==
    IF n = 0 THEN {<<>>}
    ELSE {Append(h, msg) : h \in HistoriesOfLen(n - 1), msg \in MessageKinds}

Histories == UNION {HistoriesOfLen(n) : n \in 0..MaxHistory}

\* one conversation is stored, with any history
InitStored ==
    /\ initialized = TRUE
    /\ collection = TRUE
    /\ \E h \in Histories :
           store = (Uuid(1) :> [ConversationHistory(Uuid(1), None) EXCEPT !.messages = h])
    /\ nextId = 2
    /\ deleted = {}
    /\ InitRequests
    /\ InitDirect

InitClassifier == InitStored /\ index_down = FALSE

\* the first request, on the stored conversation, up to the routing decision
NextClassifier ==
    \/ \E m \in UserTexts, id \in KnownIds : ChatBegin(1, m, id)
    \/ \E raised \in BOOLEAN, idx_raised \in BOOLEAN, idx \in IndexResults :
           ChatGet(1, raised, idx_raised, idx)
    \/ \E raised \in BOOLEAN : ChatClassify(1, raised)

SpecClassifier == InitClassifier /\ [][NextClassifier]_vars

\* ------------------------------ one turn while the vector index is down
InitIndexDown == InitStored /\ index_down = TRUE

\* the first request, from arrival to return
NextTurn ==
    \/ \E m \in UserTexts, id \in {NoId, UnknownId} \cup KnownIds : ChatBegin(1, m, id)
    \/ \E raised \in BOOLEAN : ChatCreate(1, raised)
    \/ \E raised \in BOOLEAN, idx_raised \in BOOLEAN, idx \in IndexResults :
           ChatGet(1, raised, idx_raised, idx)
    \/ \E raised \in BOOLEAN : ChatClassify(1, raised)
    \/ \E llm_raised \in BOOLEAN, answer \in LlmReplies : ChatNode(1, llm_raised, answer)
    \/ \E idx_raised \in BOOLEAN, idx \in IndexResults,
          llm_raised \in BOOLEAN, answer \in LlmReplies :
           BuildTopicNode(1, idx_raised, idx, llm_raised, answer)
    \/ \E raised \in BOOLEAN : ChatRespond(1, raised)

SpecIndexDown == InitIndexDown /\ [][NextTurn]_vars

\* ------------------------------- one turn on a conversation of any history
SpecTurn == InitClassifier /\ [][NextTurn]_vars

\* ------------------------------------------ build_topic_node on its own
\* the node is entered with any list of messages in its state, the empty one
\* included
InitAugmenter ==
    /\ initialized = TRUE
    /\ collection = TRUE
    /\ store = << >>
    /\ nextId = 1
    /\ deleted = {}
    /\ index_down = FALSE
    /\ pc = [t \in Turns |-> IF t = 1 THEN "build_topic" ELSE "idle"]
    /\ \E h \in Histories :
           langchain_messages =
               [t \in Turns |-> IF t = 1 THEN convert_to_langchain_messages(h) ELSE <<>>]
    /\ message = [t \in Turns |-> <<>>]
    /\ supplied = [t \in Turns |-> NoId]
    /\ conversation_id = [t \in Turns |-> NoId]
    /\ conversation = [t \in Turns |-> NoConversation]
    /\ context = [t \in Turns |-> <<>>]
    /\ queries = [t \in Turns |-> <<>>]
    /\ route = [t \in Turns |-> IF t = 1 THEN "not_generated" ELSE "none"]
    /\ response = [t \in Turns |-> NoMessage]
    /\ result = [t \in Turns |-> [status |-> "none"]]
    /\ sent = [t \in Turns |-> <<>>]
    /\ llm_failed = [t \in Turns |-> FALSE]
    /\ minted = [t \in Turns |-> {}]
    /\ wrote = [t \in Turns |-> {}]
    /\ loaded = [t \in Turns |-> NoConversation]
    /\ ack = [t \in Turns |-> FALSE]
    /\ InitDirect

NextAugmenter ==
    \E idx_raised \in BOOLEAN, idx \in IndexResults,
       llm_raised \in BOOLEAN, answer \in LlmReplies :
        BuildTopicNode(1, idx_raised, idx, llm_raised, answer)

SpecAugmenter == InitAugmenter /\ [][NextAugmenter]_vars

\* ------------------------------------- the store service, called directly
\* the variables of the chat requests and of the retriever
beside_store == << initialized, nextId, pc, message, supplied, conversation_id,
                  conversation, context, queries, langchain_messages, route, response,
                  result, sent, llm_failed, minted, wrote, loaded, ack,
                  index_down, index, retrieval >>

StoreIds == {Uuid(n) : n \in 1..MaxIds}

\* what callers hand to save_conversation: a new conversation (as
\* create_conversation builds it) or one with a first turn (as chat builds it)
StoreDocs ==
    {[conversation_id |-> id, messages |-> <<>>, title |-> None, updated_at |-> 0] :
        id \in StoreIds}
    \cup
    {[conversation_id |-> id,
      messages |-> <<ChatMessage("user", <<"tcp">>), ChatMessage("assistant", <<"ok">>)>>,
      title |-> Some(<<"tcp">>), updated_at |-> 0] :
        id \in StoreIds}

\* the id written last comes last
Rewritten(seq, id) ==
    LET differs(x) == x # id IN Append(SelectSeq(seq, differs), id)

Unwritten(seq, id) ==
    LET differs(x) == x # id IN SelectSeq(seq, differs)

\* time passes
Tick ==
    /\ now < MaxClock
    /\ now' = now + 1
    /\ UNCHANGED << beside_store, collection, store, deleted, pending, written, reply >>

\* save_conversation lines 56-69, up to the await: the command leaves with its stamp
SaveBegin(conv) ==
    /\ Cardinality(pending) < MaxTurns
    /\ pending' = pending \cup {conversation_dict(conv, now)}
    /\ UNCHANGED << beside_store, collection, store, deleted, now, written, reply >>

\* save_conversation lines 65-74: the server applies the command, or the call raises
SaveApply(d, raised) ==
    /\ d \in pending
    /\ LET saved == save_conversation(store, d, raised)
       IN  /\ store' = saved.store
           /\ written' = IF saved.ok THEN Rewritten(written, d.conversation_id)
                         ELSE written
           /\ reply' = [op |-> "save", id |-> d.conversation_id, value |-> saved.ok]
    /\ pending' = pending \ {d}
    /\ UNCHANGED << beside_store, collection, deleted, now >>

\* await mongodb_service.get_conversation(id)
GetCall(id, raised) ==
    /\ reply' = [op |-> "get", id |-> id, value |-> get_conversation(store, id, raised)]
    /\ UNCHANGED << beside_store, collection, store, deleted, now, pending, written >>

\* await mongodb_service.delete_conversation(id)
DeleteCall(id, raised) ==
    /\ LET gone == delete_conversation(store, id, raised)
       IN  /\ store' = gone.store
           /\ deleted' = IF gone.ok THEN deleted \cup {id} ELSE deleted
           /\ written' = IF gone.ok THEN Unwritten(written, id) ELSE written
           /\ reply' = [op |-> "delete", id |-> id, value |-> gone.ok]
    /\ UNCHANGED << beside_store, collection, now, pending >>

\* await mongodb_service.list_conversations()
ListCall(raised, order) ==
    /\ reply' = [op |-> "list", id |-> NoId,
                 value |-> list_conversations(store, raised, order)]
    /\ UNCHANGED << beside_store, collection, store, deleted, now, pending, written >>

InitStore ==
    /\ initialized = TRUE
    /\ collection \in BOOLEAN
    /\ store = << >>
    /\ nextId = 1
    /\ deleted = {}
    /\ index_down = FALSE
    /\ InitRequests
    /\ InitDirect

NextStore ==
    \/ Tick
    \/ \E conv \in StoreDocs : SaveBegin(conv)
    \/ \E d \in pending, raised \in BOOLEAN : SaveApply(d, raised)
    \/ \E id \in StoreIds \cup {UnknownId}, raised \in BOOLEAN : GetCall(id, raised)
    \/ \E id \in StoreIds \cup {UnknownId}, raised \in BOOLEAN : DeleteCall(id, raised)
    \/ \E raised \in BOOLEAN, order \in Sorted(store) : ListCall(raised, order)

SpecStore == InitStore /\ [][NextStore]_vars

\* --------------------------------------------- the timestamps of a turn
\* Here the documents carry created_at and updated_at and every message its
\* timestamp.  The clock is read by separate datetime.now() calls, in program
\* order; it never runs backwards.  Retrieval and the model call stamp
\* nothing: they are the time that may pass between a load and a save.

\* the variables the timestamps do not depend on
beside_clock == << initialized, collection, deleted, index_down, index, retrieval,
                  supplied, context, queries, langchain_messages, route, response,
                  result, sent, llm_failed, minted, wrote, ack >>

\* variant: the clock counts down
stamped_message_backwards(role, content, at) ==
    [role |-> role, content |-> content, timestamp |-> MaxClock - at]

\* ChatMessage(role, content, timestamp=datetime.now(timezone.utc))
stamped_message(role, content, at) ==
    [role |-> role, content |-> content, timestamp |-> at]

\* variant: created_at is read after the save
stamped_conversation_late(id, title, at) ==
    [conversation_id |-> id, messages |-> <<>>, title |-> title,
     created_at |-> at + MaxClock, updated_at |-> at]

\* create_conversation lines 165-170: both instants are read at creation
stamped_conversation(id, title, at) ==
    [conversation_id |-> id, messages |-> <<>>, title |-> title,
     created_at |-> at, updated_at |-> at]

\* the instants a later datetime.now() of the same stretch of code can return
Later == {at \in now..MaxClock : at <= now + 1}

\* create_conversation up to the await of update_one: the document is built
\* and save_conversation stamps updated_at again before the command leaves
ClockCreate(title, at) ==
    /\ nextId <= MaxIds
    /\ at \in Later
    /\ pending' = pending \cup
           {conversation_dict(stamped_conversation(Uuid(nextId), title, now), at)}
    /\ nextId' = nextId + 1
    /\ now' = at
    /\ UNCHANGED << beside_clock, store, written, reply, pc, message, conversation_id,
                    conversation, loaded >>

\* chat lines 271-282: the stored conversation is loaded and the user message
\* is appended with its timestamp
ClockLoad(t, id, m) ==
    /\ pc[t] = "idle"
    /\ id \in DOMAIN store
    /\ loaded' = [loaded EXCEPT ![t] = store[id]]
    /\ conversation' = [conversation EXCEPT ![t] =
           [store[id] EXCEPT !.messages = Append(@, stamped_message("user", m, now))]]
    /\ message' = [message EXCEPT ![t] = m]
    /\ conversation_id' = [conversation_id EXCEPT ![t] = id]
    /\ pc' = [pc EXCEPT ![t] = "respond"]
    /\ UNCHANGED << beside_clock, store, written, reply, nextId, now, pending >>

\* chat lines 303-315 and save_conversation up to the await of update_one: the
\* reply is appended with its timestamp, updated_at is stamped, the command
\* leaves
ClockSave(t, answer, at) ==
    /\ pc[t] = "respond"
    /\ at \in Later
    /\ LET conv == [conversation[t] EXCEPT
                       !.title = IF @ = None THEN Some(message[t]) ELSE @,
                       !.messages = Append(@, stamped_message("assistant", answer, now)),
                       !.updated_at = now]
       IN  pending' = pending \cup {conversation_dict(conv, at)}
    /\ now' = at
    /\ pc' = [pc EXCEPT ![t] = "done"]
    /\ UNCHANGED << beside_clock, store, written, reply, nextId, message, conversation_id,
                    conversation, loaded >>

InitClock ==
    /\ initialized = TRUE
    /\ collection = TRUE
    /\ store = << >>
    /\ nextId = 1
    /\ deleted = {}
    /\ index_down = FALSE
    /\ InitRequests
    /\ InitDirect

NextClock ==
    \/ Tick
    \/ \E title \in Titles, at \in Later : ClockCreate(title, at)
    \/ \E t \in Turns, id \in KnownIds, m \in UserTexts : ClockLoad(t, id, m)
    \/ \E t \in Turns, answer \in LlmReplies, at \in Later : ClockSave(t, answer, at)
    \/ \E d \in pending, raised \in BOOLEAN : SaveApply(d, raised)

SpecClock == InitClock /\ [][NextClock]_vars

\* ---------------------------------------- the retriever, called directly
\* the variables of the chat requests and of the store
beside_retriever == << initialized, collection, store, nextId, pc, message, supplied,
                      conversation_id, conversation, context, queries, langchain_messages,
                      route, response, result, sent, llm_failed, minted, wrote,
                      loaded, ack, deleted, index_down, now, pending, written,
                      reply >>

Scores == {95, 90, 80, 70, 60}
PageNames == <<"p1", "p2", "p3", "p4", "p5", "p6", "p7", "p8">>

RECURSIVE ScoreLists(_)
ScoreLists(n) ==
    IF n = 0 THEN {<<>>}
    ELSE {Append(scores, x) : scores \in ScoreLists(n - 1), x \in Scores}

\* the rankings the index can hold for a query: up to MaxDocs documents
Indexes ==
    {[i \in 1..Len(scores) |-> [page_content |-> PageNames[i], score |-> scores[i]]] :
        scores \in UNION {ScoreLists(n) : n \in 0..MaxDocs}}

\* await aget_context(query); raised = the similarity search raised
AgetContextCall(query, raised) ==
    /\ LET results == similarity_search_with_score(index, TopK)
       IN  retrieval' = [fn |-> "aget_context", query |-> query, failed |-> raised,
                         threshold |-> ScoreAget,
                         context |-> aget_context(query, raised, results),
                         web_calls |-> aget_context_web_calls(query, raised, results)]
    /\ UNCHANGED << beside_retriever, index >>

\* get_context(query)
GetContextCall(query, raised) ==
    /\ LET results == similarity_search_with_score(index, TopK)
       IN  retrieval' = [fn |-> "get_context", query |-> query, failed |-> raised,
                         threshold |-> ScoreGet,
                         context |-> get_context(query, raised, results),
                         web_calls |-> get_context_web_calls(query, raised, results)]
    /\ UNCHANGED << beside_retriever, index >>

InitRetriever ==
    /\ initialized = TRUE
    /\ collection = TRUE
    /\ store = << >>
    /\ nextId = 1
    /\ deleted = {}
    /\ index_down = FALSE
    /\ InitRequests
    /\ now = 0 /\ pending = {} /\ written = <<>> /\ reply = NoReply
    /\ index \in Indexes
    /\ retrieval = NoRetrieval

NextRetriever ==
    \/ \E query \in UserTexts, raised \in BOOLEAN : AgetContextCall(query, raised)
    \/ \E query \in UserTexts, raised \in BOOLEAN : GetContextCall(query, raised)

SpecRetriever == InitRetriever /\ [][NextRetriever]_vars

\* ----------------------------------------------------------------- claims
Ended(t) == pc[t] \in {"done", "failed"}
Returned(t) == pc[t] = "done" /\ result[t].status = "ok"

\* C1: a request whose llm.invoke raised ends without having changed any
\* document of the store (and without leaving a newly created one behind).
C1_NoPartialPersistence ==
    \A t \in Turns : (Ended(t) /\ llm_failed[t]) => wrote[t] = {}

\* C2: a request whose llm.invoke raised never returns a reply record.
C2_LlmFailureFailsTurn ==
    \A t \in Turns : (Ended(t) /\ llm_failed[t]) => ~Returned(t)

\* C3: a request whose final save_conversation was not acknowledged does not
\* return the reply as a successful result.
C3_SaveFailureReported ==
    \A t \in Turns : (pc[t] = "done" /\ ~ack[t]) => ~Returned(t)

\* C4: in every persisted conversation each user message is immediately
\* followed by an assistant message.
C4_PersistedPairs ==
    \A id \in DOMAIN store :
        LET messages == store[id].messages
        IN  \A i \in 1..Len(messages) :
                messages[i].role = "user" =>
                    /\ i < Len(messages)
                    /\ messages[i + 1].role = "assistant"

\* the step in which request t saves its conversation and the save is acknowledged
Persists(t) == pc[t] = "respond" /\ pc'[t] = "done" /\ ack'[t]

\* C5: when a request persists and the stored document is still the one it
\* loaded, the stored messages become the old ones followed by one user
\* message and one reply, and the returned text is the last stored content.
C5_TurnAppendsPair ==
    [][\A t \in Turns :
         (Persists(t) /\ Get(store, conversation_id[t]) = loaded[t]) =>
             LET before == store[conversation_id[t]].messages
                 after == store'[conversation_id[t]].messages
             IN  /\ Len(after) = Len(before) + 2
                 /\ SubSeq(after, 1, Len(before)) = before
                 /\ after[Len(before) + 1].role = "user"
                 /\ result'[t].status = "ok"
                 /\ result'[t].message = after[Len(after)].content
                 /\ result'[t].conversation_id = conversation_id[t]]_vars

\* C5 witness: a second request has returned on a conversation that now holds
\* two pairs, the last content being the returned text.
C5_Witness ==
    \E t \in Turns :
        /\ Returned(t) /\ ack[t]
        /\ result[t].conversation_id \in DOMAIN store
        /\ LET messages == store[result[t].conversation_id].messages
           IN  Len(messages) = 4 /\ Last(messages).content = result[t].message

\* C6: what a request persists is the loaded history, then the raw user text,
\* then the reply: the lesson template or any other rewriting of the
\* model-facing messages never reaches a persisted content.
C6_RawUserTextPersisted ==
    [][\A t \in Turns :
         /\ Persists(t) =>
               LET after == store'[conversation_id[t]].messages
               IN  /\ Len(after) = Len(loaded[t].messages) + 2
                   /\ SubSeq(after, 1, Len(after) - 2) = loaded[t].messages
                   /\ after[Len(after) - 1] = ChatMessage("user", message[t])
         /\ (pc[t] \in {"chat", "build_topic"} /\ pc'[t] = "respond") =>
               /\ conversation'[t] = conversation[t]
               /\ Last(conversation[t].messages) = ChatMessage("user", message[t])
               /\ store' = store]_vars

\* C6 witness: the model-facing copy of the last user message was rewritten
\* into the lesson template while the conversation keeps the raw text.
C6_Witness ==
    \E t \in Turns :
        /\ pc[t] = "respond" /\ route[t] = "not_generated"
        /\ Last(langchain_messages[t]).content # message[t]
        /\ Contains(Last(langchain_messages[t]).content, "User message:")
        /\ Last(conversation[t].messages).content = message[t]

\* some assistant message of the history carries the lesson marker
HasLesson(messages) ==
    \E i \in 1..Len(messages) :
        messages[i].role = "assistant" /\ Contains(messages[i].content, Marker)

C8_ClassifierScansAssistantMarkers ==
    \A t \in Turns :
        pc[t] \in {"chat", "build_topic"} =>
            /\ route[t] = "generated" <=> HasLesson(store[conversation_id[t]].messages)
            /\ route[t] \in {"generated", "not_generated"}
            /\ pc[t] = "chat" <=> route[t] = "generated"

\* C8 witness: "generated" on a history whose last message is not a marked
\* assistant message and which also holds a user message with the marker.
C8_Witness ==
    \E t \in Turns :
        /\ pc[t] = "chat"
        /\ LET h == store[conversation_id[t]].messages
           IN  /\ ~(Last(h).role = "assistant" /\ Contains(Last(h).content, Marker))
               /\ \E i \in 1..Len(h) : h[i].role = "user" /\ Contains(h[i].content, Marker)

C10_NewConversationUsesFreshId ==
    /\ DOMAIN store \subseteq KnownIds
    /\ \A t \in Turns :
        /\ pc[t] \in {"classify", "chat", "build_topic", "respond"} =>
              /\ conversation[t].conversation_id = conversation_id[t]
              /\ supplied[t] \in {NoId, UnknownId} => minted[t] # {}
              /\ minted[t] # {} =>
                    conversation_id[t] \in minted[t] /\ supplied[t] \notin minted[t]
        /\ minted[t] # {} => wrote[t] \subseteq minted[t]
        /\ (Returned(t) /\ minted[t] # {}) => result[t].conversation_id \in minted[t]

\* C10 witness: a request that named an unknown id has created a conversation
\* under an id it drew, loaded it, and is about to persist under that id.
C10_Witness ==
    \E t \in Turns :
        /\ pc[t] = "respond" /\ supplied[t] = UnknownId
        /\ conversation_id[t] \in minted[t] \cap DOMAIN store
        /\ conversation[t].conversation_id = conversation_id[t]
        /\ wrote[t] = minted[t]
        /\ UnknownId \notin DOMAIN store

\* C11: while a collaborator is missing, every chat call ends at once with the
\* initialisation error: no request gets past the check, so none draws an id,
\* writes a document, queries the index (done only at "get" and "build_topic")
\* or calls the model; the store holds only what the create endpoint wrote.
C11_UninitializedRefusesTurns ==
    ~initialized =>
        /\ \A t \in Turns :
              /\ pc[t] \in {"idle", "failed"}
              /\ pc[t] = "failed" =>
                    result[t] = [status |-> "error", error |-> "ValueError"]
              /\ pc[t] = "idle" => result[t].status = "none"
              /\ minted[t] = {} /\ wrote[t] = {}
              /\ sent[t] = <<>> /\ ~llm_failed[t]
              /\ context[t] = <<>> /\ langchain_messages[t] = <<>>
              /\ conversation[t] = NoConversation
        /\ \A id \in DOMAIN store : store[id].messages = <<>>

\* C11 witness: with a collaborator missing, every request has been made and
\* refused, while the create endpoint has stored a conversation.
C11_Witness ==
    /\ ~initialized
    /\ \A t \in Turns : pc[t] = "failed" /\ result[t].error = "ValueError"
    /\ store # << >>

\* C13: a conversation id for which the delete endpoint found and removed a
\* document never resolves again.
C13_DeletionIsTerminal ==
    deleted \cap DOMAIN store = {}

\* C19: in a continuation turn the model receives the converted history with
\* the content of the last user message replaced by the CONTEXT / USER MESSAGE
\* preamble built from the retrieved context and the raw user text.
C19_ContinuationSendsPreamble ==
    \A t \in Turns :
        (pc[t] = "respond" /\ route[t] = "generated") =>
            LET history == convert_to_langchain_messages(conversation[t].messages)
                preamble == augmented_message(context[t], message[t])
            IN  sent[t] = << [history EXCEPT ![Len(history)].content = preamble] >>

\* C20: a request whose save lands on a document that is no longer the one it
\* loaded replaces it by the loaded history plus its own pair, so nothing of
\* the write that came in between survives, and its caller still gets the reply.
C20_LaterUpsertOverwrites ==
    [][\A t \in Turns :
         (/\ Persists(t)
          /\ conversation_id[t] \in DOMAIN store
          /\ store[conversation_id[t]] # loaded[t]) =>
             LET ai_message == convert_from_langchain_message(response[t])
             IN  /\ store'[conversation_id[t]] =
                        updated_conversation(with_user_message(loaded[t], message[t]),
                                             message[t], ai_message)
                 /\ result'[t] = chat_return(ai_message, conversation_id[t], TRUE)]_vars

\* C20 witness: two requests on one id have both saved with acknowledgement and
\* both returned a reply, nothing was deleted, and the stored conversation
\* holds a single user/reply pair.
C20_Witness ==
    \E t, u \in Turns :
        /\ t # u /\ Returned(t) /\ Returned(u) /\ ack[t] /\ ack[u]
        /\ result[t].conversation_id = result[u].conversation_id
        /\ result[t].conversation_id \in wrote[t] \cap wrote[u] \cap DOMAIN store
        /\ deleted = {}
        /\ Len(store[result[t].conversation_id].messages) = 2

\* the step is a call of op on the store service (a call that returns what the
\* previous call returned and changes nothing is no step at all)
Called(op) ==
    /\ reply'.op = op
    /\ reply' # reply \/ (pending' \subseteq pending /\ pending' # pending)

\* C12: delete_conversation on an id that is not stored returns False and
\* leaves the store as it is, whatever was deleted before.
C12_DeleteAbsentIsNotFound ==
    [][(Called("delete") /\ reply'.id \notin DOMAIN store) =>
           /\ reply'.value = FALSE
           /\ store' = store
           /\ deleted' = deleted]_vars

\* C12 witness: the delete of an id was answered True, the same delete was
\* repeated and answered False, and another conversation is still stored.
C12_Witness ==
    /\ reply.op = "delete" /\ reply.value = FALSE
    /\ reply.id \in deleted /\ reply.id \notin DOMAIN store
    /\ store # << >>

\* same id, title and message sequence
SameConversation(a, b) ==
    /\ a # NoConversation /\ b # NoConversation
    /\ a.conversation_id = b.conversation_id
    /\ a.title = b.title
    /\ a.messages = b.messages

\* an acknowledged save leaves exactly the saved conversation under its id,
\* adds no second record and touches no other record
SaveStoresConversation ==
    \A d \in pending :
        (Called("save") /\ pending' = pending \ {d} /\ reply'.value) =>
            /\ DOMAIN store' = DOMAIN store \cup {d.conversation_id}
            /\ SameConversation(store'[d.conversation_id], d)
            /\ \A j \in DOMAIN store \ {d.conversation_id} : store'[j] = store[j]

\* a stored conversation changes only by an acknowledged save or a successful
\* delete of its id
OnlySaveOrDeleteChanges ==
    \A id \in DOMAIN store :
        (id \notin DOMAIN store' \/ ~SameConversation(store'[id], store[id])) =>
            /\ reply'.op \in {"save", "delete"}
            /\ reply'.id = id /\ reply'.value = TRUE

ListsEveryConversation(v) ==
    /\ Len(v) = Cardinality(DOMAIN store)
    /\ {v[i].conversation_id : i \in DOMAIN v} = DOMAIN store
    /\ \A i \in DOMAIN v : v[i] = conversation_summary(store[v[i].conversation_id])
    /\ \A i, j \in DOMAIN v : i < j => v[i].updated_at >= v[j].updated_at

Passing(threshold) ==
    {i \in 1..Len(index) : i <= TopK /\ index[i].score > threshold}

\* the texts at the positions of S, in ranking order
TextsAt(S) ==
    LET nth(k) == CHOOSE i \in S : Cardinality({j \in S : j < i}) = k - 1
    IN  [k \in 1..Cardinality(S) |-> index[nth(k)].page_content]

\* C16: a retrieval whose search succeeded returns the texts of exactly those
\* of the five best ranked documents that score strictly above its threshold,
\* in ranking order, and calls web_search only when there is none.
C16_ContextIsPassagesAboveThreshold ==
    (retrieval.fn # "none" /\ ~retrieval.failed) =>
        /\ retrieval.context = TextsAt(Passing(retrieval.threshold))
        /\ Passing(retrieval.threshold) # {} => retrieval.web_calls = <<>>

\* C16 witness: scores 95, 80, 60 at threshold 70 gave the first two texts.
C16_Witness ==
    /\ retrieval.fn = "get_context" /\ ~retrieval.failed
    /\ Len(index) = 3
    /\ index[1].score = 95 /\ index[2].score = 80 /\ index[3].score = 60
    /\ retrieval.context = <<"p1", "p2">>
    /\ retrieval.web_calls = <<>>

\* C17: a retrieval that finds no passage above its threshold, or whose search
\* raised, calls web_search exactly once with its query, and the snippets
\* (none, as web_search returns) are its context.
C17_FallbackCallsWebSearchOnce ==
    (retrieval.fn # "none"
        /\ (retrieval.failed \/ Passing(retrieval.threshold) = {})) =>
            /\ retrieval.web_calls = << retrieval.query >>
            /\ retrieval.context = web_search(retrieval.query)

\* C18: while every query of the vector index raises, a request is never
\* ended by the retrieval: its context is empty, it fails only on a store
\* read (AttributeError) or in chat_node (the model), it calls the model with
\* the history (lesson template with empty context on a lesson turn), and an
\* acknowledged save persists the reply.
C18_IndexFailureIsAbsorbed ==
    [][\A t \in Turns :
         /\ (pc[t] \in {"get", "get_again"} /\ pc'[t] = "classify") =>
               context'[t] = <<>>
         /\ (pc[t] # "failed" /\ pc'[t] = "failed") =>
               /\ pc[t] \in {"get_again", "classify", "chat"}
               /\ result'[t].error =
                      IF pc[t] = "chat" THEN "LLMError" ELSE "AttributeError"
         /\ (pc[t] = "build_topic" /\ pc'[t] = "respond") =>
               /\ Len(sent'[t]) = 1
               /\ Last(sent'[t][1]).content = LessonTemplate(<<>>, message[t])
         /\ (pc[t] = "chat" /\ pc'[t] = "respond") =>
               sent'[t] = << langchain_messages[t] >>
         /\ pc[t] = "respond" => pc'[t] \in {"respond", "done"}
         /\ Persists(t) =>
               /\ Last(store'[conversation_id[t]].messages) =
                      convert_from_langchain_message(response[t])
               /\ result'[t].status = "ok"]_vars

\* C18 witness: with the index down, a request returned the model's reply and
\* the reply is persisted as the last message of its conversation.
C18_Witness ==
    \E t \in Turns :
        /\ index_down /\ Returned(t) /\ ack[t] /\ ~llm_failed[t]
        /\ result[t].conversation_id \in DOMAIN store
        /\ LET last == Last(store[result[t].conversation_id].messages)
           IN  /\ last.role = "assistant"
               /\ last.content \in LlmReplies
               /\ last.content = result[t].message

\* the ids whose persisted record differs between the two states of a step
Changed == {id \in DOMAIN store \cup DOMAIN store' : Get(store', id) # Get(store, id)}

\* the locals of request t
Locals(t) ==
    << message[t], supplied[t], conversation_id[t], conversation[t], context[t],
       queries[t], langchain_messages[t], route[t], response[t], result[t],
       sent[t], loaded[t] >>

\* C21: every step changes the record of at most one id; a deletion changes
\* only the record of the id it deletes; a step of a chat request changes only
\* the record of the id the request works on, and leaves the locals of every
\* other request as they are, so what a request persists is fixed by its own
\* steps and by the record of its own id.
C21_NoInterferenceAcrossIds ==
    [][/\ Cardinality(Changed) <= 1
       /\ deleted' # deleted => Changed = deleted' \ deleted
       /\ \A t \in Turns :
             pc'[t] # pc[t] =>
                /\ Changed \subseteq
                       {IF pc[t] \in {"create", "create_again"}
                        THEN conversation_id'[t] ELSE conversation_id[t]}
                /\ \A u \in Turns \ {t} : Locals(u)' = Locals(u) /\ pc'[u] = pc[u]
       /\ (\A t \in Turns : pc'[t] = pc[t]) =>
             \A t \in Turns : Locals(t)' = Locals(t)]_vars

\* C21 witness: two requests on two different ids have both returned, each id
\* holds the pair of its own request, and nothing was deleted.
C21_Witness ==
    /\ \A t \in Turns : Returned(t) /\ ack[t] /\ minted[t] = {}
    /\ result[1].conversation_id # result[2].conversation_id
    /\ deleted = {}
    /\ \A t \in Turns :
          /\ result[t].conversation_id \in DOMAIN store
          /\ Len(store[result[t].conversation_id].messages) = 2
          /\ store[result[t].conversation_id].messages[2].content = result[t].message

\* C23: a request that has not yet made its final save has written nothing:
\* while it is in flight, and when it failed, the store holds no change of its.
C23_SingleCommitPoint ==
    \A t \in Turns : pc[t] # "done" => wrote[t] = {}

\* C24: the route a request takes is "generated" exactly when the in-memory
\* conversation it loaded (with its user message appended) holds a marked
\* assistant message, and the classification step never fails the request.
C24_DecisionFromLoadedConversation ==
    [][\A t \in Turns :
         (pc[t] = "classify" /\ pc'[t] # "classify") =>
             /\ pc'[t] # "failed"
             /\ pc'[t] = "chat" <=> HasLesson(conversation[t].messages)]_vars

\* C25: a request queries the vector index only after it has been classified,
\* and calls the model only after a retrieval has returned.
C25_ClassifiedBeforeRetrieval ==
    \A t \in Turns :
        /\ pc[t] \in {"create", "get", "create_again", "get_again", "classify"} =>
              queries[t] = <<>>
        /\ sent[t] # <<>> => queries[t] # <<>>

\* C27: a request that has called the model has made exactly one retrieval, on
\* its raw user text, and the prompt it sent carries the context retrieved.
C27_OneRetrievalPerTurn ==
    \A t \in Turns :
        (pc[t] = "respond" /\ sent[t] # <<>>) =>
            /\ Len(queries[t]) = 1
            /\ queries[t][1].query = message[t]
            /\ Last(sent[t][1]).content \in
                   {LessonTemplate(queries[t][1].context, message[t]),
                    augmented_message(queries[t][1].context, message[t])}

\* C28: a request given the id of a stored conversation goes on with that
\* conversation when it loads it, and never creates another one.
C28_StoredIdIsUsed ==
    [][\A t \in Turns :
         (/\ pc[t] = "get" /\ pc'[t] # "get"
          /\ supplied[t] = conversation_id[t]
          /\ supplied[t] \in DOMAIN store) =>
             /\ pc'[t] = "classify"
             /\ conversation'[t].conversation_id = supplied[t]]_vars

\* C26: on a lesson turn the sequence sent to the model has the length of the
\* converted history; every message but the last is the history's, in order;
\* the last is the user's, rewritten to the lesson template around the context
\* just retrieved and the raw user text.
C26_LessonRewritesLastMessageOnly ==
    [][\A t \in Turns :
         (pc[t] = "build_topic" /\ pc'[t] = "respond" /\ langchain_messages[t] # <<>>) =>
             LET history == convert_to_langchain_messages(conversation[t].messages)
                 out == Last(sent'[t])
                 n == Len(history)
             IN  /\ Len(sent'[t]) = Len(sent[t]) + 1
                 /\ Len(out) = n
                 /\ \A i \in 1..(n - 1) : out[i] = history[i]
                 /\ out[n] = BaseMessage("human",
                        LessonTemplate(Last(queries'[t]).context, message[t]))]_vars

\* C26 witness: a lesson turn on a stored history of three messages sent four
\* messages to the model, the last one built around a retrieved passage.
C26_Witness ==
    \E t \in Turns :
        /\ pc[t] = "respond" /\ route[t] = "not_generated"
        /\ Len(loaded[t].messages) = 3
        /\ Len(sent[t]) = 1 /\ Len(sent[t][1]) = 4
        /\ Last(queries[t]).context # <<>>
        /\ Contains(Last(sent[t][1]).content, "Build a structured lesson")

\* C30: build_topic_node entered with an empty list of messages ends in an
\* error: the request fails, nothing is sent to the model and no reply message
\* is produced.
C30_EmptyHistoryFailsTheTurn ==
    [][\A t \in Turns :
         (pc[t] = "build_topic" /\ langchain_messages[t] = <<>> /\ pc'[t] # pc[t]) =>
             /\ pc'[t] = "failed"
             /\ sent'[t] = sent[t]
             /\ response'[t] = NoMessage]_vars

\* C22 as stated: updated_at >= created_at in every persisted conversation,
\* created_at never changes, and no write ever moves the persisted updated_at
\* of a conversation back.
C22_UpdatedAtNeverMovesBack ==
    [][/\ \A id \in DOMAIN store' :
             store'[id].updated_at >= store'[id].created_at
       /\ \A id \in DOMAIN store \cap DOMAIN store' :
             /\ store'[id].created_at = store[id].created_at
             /\ store'[id].updated_at >= store[id].updated_at]_vars

\* C22 amended: updated_at >= created_at in every persisted conversation and
\* created_at never changes; a save carries as updated_at the instant it read
\* when it was called, which for a turn is not earlier than the updated_at of
\* the record the turn loaded; the store takes the documents as they were
\* sent, in the order the writes are applied.
C22_UpdatedAtIsTheStampOfTheSave ==
    [][/\ \A id \in DOMAIN store' :
             store'[id].updated_at >= store'[id].created_at
       /\ \A id \in DOMAIN store \cap DOMAIN store' :
             store'[id].created_at = store[id].created_at
       /\ \A d \in pending' \ pending :
             /\ d.updated_at = now'
             /\ \A t \in Turns :
                   (pc[t] = "respond" /\ pc'[t] = "done") =>
                       /\ d.updated_at >= loaded[t].updated_at
                       /\ d.created_at = loaded[t].created_at
       /\ \A id \in Changed : id \in DOMAIN store' /\ store'[id] \in pending]_vars

\* C22 witness: a conversation created at one instant holds a turn saved at a
\* later one.
C22_Witness ==
    \E id \in DOMAIN store :
        /\ Len(store[id].messages) = 2
        /\ store[id].updated_at > store[id].created_at
        /\ \E t \in Turns : pc[t] = "done" /\ conversation_id[t] = id

\* C29: in every persisted conversation the timestamps never decrease along
\* the sequence of messages.
C29_MessageTimestampsMonotonic ==
    \A id \in DOMAIN store :
        \A i, j \in 1..Len(store[id].messages) :
            i < j => store[id].messages[i].timestamp <= store[id].messages[j].timestamp

\* C29 witness: a conversation holds two turns, the second one later than the
\* first, and both requests have saved.
C29_Witness ==
    \E id \in DOMAIN store :
        /\ Len(store[id].messages) = 4
        /\ store[id].messages[1].timestamp < store[id].messages[4].timestamp
        /\ \A t \in Turns : pc[t] = "done" /\ conversation_id[t] = id

====
